---- MODULE Spec2Model ----
(***************************************************************************)
(* Session bookkeeping of the two analysis applications:                   *)
(*   src/zcyq.py                   cache, history, orchestrator, handler   *)
(*   src/resume_analyzer_agent2.py the plain variant without cache/history *)
(*                                                                         *)
(* Strings are sequences of one-character tokens.  A Chinese character of  *)
(* the source is written as one token holding its pinyin, so that lengths, *)
(* slices and prefixes are those of the Python strings.                    *)
(* Optional values (Python None) are sets: {} is None, {v} is the value v. *)
(***************************************************************************)
EXTENDS Integers, Sequences, FiniteSets, TLC

VARIABLES
    cache,                  \* st.session_state.cache: key -> [result, timestamp]
    cache_timestamp,        \* st.session_state.cache_timestamp (set by the clear button only)
    analysis_history,       \* st.session_state.analysis_history, newest first
    analysis_result,        \* st.session_state.analysis_result (optional string)
    target_position,        \* st.session_state.target_position (optional category)
    last_analysis_content,  \* st.session_state.last_analysis_content (optional string)
    resume_analysis_result, \* resume_analyzer_agent2: st.session_state.analysis_result
    resume_target_position, \* resume_analyzer_agent2: st.session_state.target_position
    now,                    \* the wall clock read by time.time() / datetime.now(), in seconds
    last                    \* what the last user event did (observation of the run)

vars == <<cache, cache_timestamp, analysis_history, analysis_result, target_position,
          last_analysis_content, resume_analysis_result, resume_target_position, now, last>>

-----------------------------------------------------------------------------
(* Program constants *)

MAX_HISTORY_RECORDS == 10
CACHE_EXPIRY_TIME == 3600
PREVIEW_LEN == 50
KEY_PREFIX_LEN == 1000
MIN_CONTENT_LEN == 10

TARGET_POSITIONS ==
    << <<"zhi", "ye", "gui", "hua">>,
       <<"ying", "xiao", "fang", "an">>,
       <<"shu", "ju", "fen", "xi", "shi">> >>

RESUME_TARGET_POSITIONS ==
    << <<"gang", "wei">>,
       <<"p", "y", "t", "h", "o", "n", "kai", "fa", "gong", "cheng", "shi">>,
       <<"chan", "pin", "jing", "li">>,
       <<"shu", "ju", "fen", "xi", "shi">>,
       <<"U", "I", "/", "U", "X", "she", "ji", "shi">> >>

\* "请先配置OpenAI API密钥"
CONFIG_ERROR ==
    <<"qing", "xian", "pei", "zhi", "O", "p", "e", "n", "A", "I", " ",
      "A", "P", "I", "mi", "yao">>

\* "AI分析失败"
FAILURE_PREFIX == <<"A", "I", "fen", "xi", "shi", "bai">>

-----------------------------------------------------------------------------
(* Python values *)

None == {}
Some(v) == {v}
Get(o) == CHOOSE v \in o : TRUE

Rep(n, ch) == [i \in 1..n |-> ch]

Min(a, b) == IF a < b THEN a ELSE b

\* s[:n]
Prefix(s, n) == SubSeq(s, 1, Min(n, Len(s)))

\* s.startswith(p)
StartsWith(s, p) == Len(s) >= Len(p) /\ SubSeq(s, 1, Len(p)) = p

Whitespace == {" ", "\t", "\n", "\r"}

RECURSIVE LStrip(_)
LStrip(s) == IF s # <<>> /\ Head(s) \in Whitespace THEN LStrip(Tail(s)) ELSE s

RECURSIVE RStrip(_)
RStrip(s) ==
    IF s # <<>> /\ s[Len(s)] \in Whitespace THEN RStrip(SubSeq(s, 1, Len(s) - 1)) ELSE s

\* s.strip()
Strip(s) == RStrip(LStrip(s))

\* datetime.now().strftime("%Y-%m-%d %H:%M:%S"): the calendar fields of the clock
strftime(t) ==
    [day |-> t \div 86400, H |-> (t % 86400) \div 3600, M |-> (t % 3600) \div 60, S |-> t % 60]

\* hashlib.md5(combined.encode()).hexdigest(): a digest taken to be free of
\* collisions, written as the tagged text it digests
md5_hexdigest(s) == <<"md5", s>>

-----------------------------------------------------------------------------
(* zcyq.py: cache store *)

get_cache_key(content, position) ==
    md5_hexdigest(Prefix(content, KEY_PREFIX_LEN) \o <<":">> \o position)

\* the result stored under cache_key in store c at time t, or None
check_cache_in(c, t, cache_key) ==
    IF cache_key \in DOMAIN c /\ t - c[cache_key].timestamp < CACHE_EXPIRY_TIME
    THEN Some(c[cache_key].result)
    ELSE None

check_cache(cache_key) == check_cache_in(cache, now, cache_key)

\* the store after st.session_state.cache[cache_key] = {...}
update_cache(cache_key, result) ==
    [k \in (DOMAIN cache) \cup {cache_key} |->
        IF k = cache_key THEN [result |-> result, timestamp |-> now] ELSE cache[k]]

-----------------------------------------------------------------------------
(* zcyq.py: history log *)

\* a variant that truncates one character early
content_preview_from_50(content) ==
    IF Len(content) >= PREVIEW_LEN
    THEN Prefix(content, PREVIEW_LEN) \o <<".", ".", ".">>
    ELSE content

content_preview(content) ==
    IF Len(content) > PREVIEW_LEN
    THEN Prefix(content, PREVIEW_LEN) \o <<".", ".", ".">>
    ELSE content

history_item(content, position, result) ==
    [timestamp |-> strftime(now),
     target_position |-> position,
     content_preview |-> content_preview(content),
     result |-> result]

\* a variant that keeps the last MAX_HISTORY_RECORDS records instead of the first
update_history_keeping_tail(content, position, result) ==
    LET inserted == <<history_item(content, position, result)>> \o analysis_history
    IN IF Len(inserted) > MAX_HISTORY_RECORDS
       THEN SubSeq(inserted, Len(inserted) - MAX_HISTORY_RECORDS + 1, Len(inserted))
       ELSE inserted

\* the history after update_history(content, position, result)
update_history(content, position, result) ==
    LET inserted == <<history_item(content, position, result)>> \o analysis_history
    IN IF Len(inserted) > MAX_HISTORY_RECORDS
       THEN SubSeq(inserted, 1, MAX_HISTORY_RECORDS)
       ELSE inserted

-----------------------------------------------------------------------------
(* zcyq.py: content extractor *)

\* An uploaded file: kind is what its MIME type / extension selects, text the
\* UTF-8 decoding of its bytes, decodes whether the bytes are valid UTF-8,
\* parses whether the text is JSON, pretty the re-serialised JSON.
\* "文件解析错误: " + str(e)
FILE_PARSE_ERROR == <<"wen", "jian", "jie", "xi", "cuo", "wu", ":", " ", "e">>

\* "表格文件内容（需使用pandas进行详细解析）"
TABLE_PLACEHOLDER ==
    <<"biao", "ge", "wen", "jian", "nei", "rong", "(", "xu", "shi", "yong",
      "p", "a", "n", "d", "a", "s", "jin", "xing", "xiang", "xi", "jie", "xi", ")">>

\* the content returned by extract_file_content (its label only feeds the spinner text)
extract_file_content(uploaded_file) ==
    IF uploaded_file = None THEN None
    ELSE LET f == Get(uploaded_file)
         IN CASE f.kind = "txt"  -> IF f.decodes THEN Some(f.text) ELSE Some(FILE_PARSE_ERROR)
              [] f.kind = "json" -> IF f.decodes /\ f.parses THEN Some(f.pretty)
                                    ELSE Some(FILE_PARSE_ERROR)
              [] f.kind = "csv"  -> Some(TABLE_PLACEHOLDER)
              [] OTHER           -> Some(f.text)

TextFile(text) ==
    Some([kind |-> "txt", text |-> text, decodes |-> TRUE, parses |-> FALSE, pretty |-> <<>>])

-----------------------------------------------------------------------------
(* zcyq.py: orchestrator *)

\* What the completion endpoint does when it is called: it returns a text, or raises.
Returns(text) == [ok |-> TRUE, text |-> text]
Raises(msg) == [ok |-> FALSE, text |-> msg]

\* A Python return value: a bare string, or a (result, from_cache) tuple.
StrRet(s) == [tag |-> "str", value |-> s, from_cache |-> FALSE]
TupleRet(r, b) == [tag |-> "tuple", value |-> r, from_cache |-> b]
NoRet == [tag |-> "none", value |-> <<>>, from_cache |-> FALSE]

\* a variant that forgets the strip(): only the empty credential is missing
NoCredential_without_strip(api_key) == api_key = <<>>

\* not api_key or api_key.strip() == ""
NoCredential(api_key) == api_key = <<>> \/ Strip(api_key) = <<>>

\* f"AI分析失败: {str(e)}\n\n详细错误:\n{error_detail}"
failure_message(msg) ==
    FAILURE_PREFIX \o <<":", " ">> \o msg
        \o <<"\n", "\n", "xiang", "xi", "cuo", "wu", ":", "\n", "Traceback", ":", " ">> \o msg

\* `if cached_result:` a stored result is used when it is a non-empty string
CacheHit(cached_result) == cached_result # None /\ Get(cached_result) # <<>>

\* a variant that looks the request up in the cache before it checks the credential
analyze_content_with_ai_cache_first(content, position, api_key, completion) ==
    LET cache_key == get_cache_key(content, position)
        cached_result == check_cache(cache_key)
    IN IF CacheHit(cached_result)
       THEN [ret |-> TupleRet(Get(cached_result), TRUE), cache |-> cache,
             calls |-> 0, completion |-> "none"]
       ELSE IF NoCredential(api_key)
            THEN [ret |-> StrRet(CONFIG_ERROR), cache |-> cache, calls |-> 0,
                  completion |-> "none"]
            ELSE IF completion.ok
                 THEN [ret |-> TupleRet(completion.text, FALSE),
                       cache |-> update_cache(cache_key, completion.text),
                       calls |-> 1, completion |-> "returned"]
                 ELSE [ret |-> TupleRet(failure_message(completion.text), FALSE),
                       cache |-> cache,
                       calls |-> 1, completion |-> "raised"]

\* analyze_content_with_ai: the value returned, the cache afterwards, the number
\* of completion requests issued and how the request ended
analyze_content_with_ai(content, position, api_key, completion) ==
    IF NoCredential(api_key)
    THEN [ret |-> StrRet(CONFIG_ERROR), cache |-> cache, calls |-> 0, completion |-> "none"]
    ELSE LET cache_key == get_cache_key(content, position)
             cached_result == check_cache(cache_key)
         IN IF CacheHit(cached_result)
            THEN [ret |-> TupleRet(Get(cached_result), TRUE), cache |-> cache,
                  calls |-> 0, completion |-> "none"]
            ELSE IF completion.ok
                 THEN [ret |-> TupleRet(completion.text, FALSE),
                       cache |-> update_cache(cache_key, completion.text),
                       calls |-> 1, completion |-> "returned"]
                 ELSE [ret |-> TupleRet(failure_message(completion.text), FALSE),
                       cache |-> cache,
                       calls |-> 1, completion |-> "raised"]

-----------------------------------------------------------------------------
(* zcyq.py: click handler *)

\* `analysis_result, from_cache = <returned value>`: a tuple unpacks into its
\* two members; a string unpacks only when it has exactly two characters, and
\* otherwise the assignment raises ValueError.
Unpack(ret) ==
    IF ret.tag = "tuple"
    THEN [ok |-> TRUE, analysis_result |-> ret.value, from_cache |-> ret.from_cache]
    ELSE IF Len(ret.value) = 2
         THEN [ok |-> TRUE, analysis_result |-> <<ret.value[1]>>, from_cache |-> TRUE]
         ELSE [ok |-> FALSE, analysis_result |-> <<>>, from_cache |-> FALSE]

\* a variant that forgets the failure sentinel
RecordsHistory_ignoring_failure(result, from_cache) ==
    ~from_cache /\ ~StartsWith(result, CONFIG_ERROR)

\* the condition of line 214 under which the handler calls update_history
RecordsHistory(result, from_cache) ==
    /\ ~from_cache
    /\ ~StartsWith(result, CONFIG_ERROR)
    /\ ~StartsWith(result, FAILURE_PREFIX)

\* the content the handler works on: the uploaded file's, else the text area's
HandlerContent(uploaded_file, resume_test) ==
    IF uploaded_file # None THEN extract_file_content(uploaded_file)
    ELSE IF resume_test # <<>> THEN Some(resume_test)
    ELSE None

\* `if not content:`
NoContent(content) == content = None \/ Get(content) = <<>>

\* a variant that measures the content as typed
TooShort_without_strip(text) == Len(text) < MIN_CONTENT_LEN

\* `if len(content.strip()) < 10:`
TooShort(text) == Len(Strip(text)) < MIN_CONTENT_LEN

\* What a user event did: the operation, the request it worked on, how the
\* handler ended (outcome), what the orchestrator returned (ret), how many
\* completion requests were issued (calls), how the request ended, and how
\* many records the history dropped at its tail (evicted).
Observe(op, content, position, api_key, outcome, ret, calls, completion, evicted) ==
    [op |-> op, content |-> content, position |-> position, api_key |-> api_key,
     outcome |-> outcome, ret |-> ret, calls |-> calls, completion |-> completion,
     evicted |-> evicted]

Idle(op) == Observe(op, None, None, None, "none", NoRet, 0, "none", 0)

handle_analyze_click(uploaded_file, resume_test, position, api_key, completion) ==
    LET content == HandlerContent(uploaded_file, resume_test)
    IN /\ UNCHANGED <<cache_timestamp, resume_analysis_result, resume_target_position, now>>
       /\ IF NoContent(content)
          THEN /\ last' = Observe("analyze", content, Some(position), Some(api_key),
                                  "warning_no_content", NoRet, 0, "none", 0)
               /\ UNCHANGED <<cache, analysis_history, analysis_result, target_position,
                              last_analysis_content>>
          ELSE IF TooShort(Get(content))
          THEN /\ last' = Observe("analyze", content, Some(position), Some(api_key),
                                  "warning_too_short", NoRet, 0, "none", 0)
               /\ UNCHANGED <<cache, analysis_history, analysis_result, target_position,
                              last_analysis_content>>
          ELSE LET run == analyze_content_with_ai(Get(content), position, api_key, completion)
                   got == Unpack(run.ret)
                   records == got.ok /\ RecordsHistory(got.analysis_result, got.from_cache)
                   updated == update_history(Get(content), position, got.analysis_result)
               IN /\ cache' = run.cache
                  /\ IF got.ok
                     THEN /\ analysis_result' = Some(got.analysis_result)
                          /\ target_position' = Some(position)
                          /\ last_analysis_content' = content
                          /\ analysis_history' = IF records THEN updated ELSE analysis_history
                          /\ last' = Observe("analyze", content, Some(position), Some(api_key),
                                             "success", run.ret, run.calls, run.completion,
                                             IF records
                                             THEN Len(analysis_history) + 1 - Len(updated)
                                             ELSE 0)
                     ELSE \* the ValueError is caught by the handler's except: st.error
                          /\ UNCHANGED <<analysis_history, analysis_result, target_position,
                                         last_analysis_content>>
                          /\ last' = Observe("analyze", content, Some(position), Some(api_key),
                                             "handler_error", run.ret, run.calls, run.completion,
                                             0)

-----------------------------------------------------------------------------
(* zcyq.py: the other widgets of main() *)

\* a clear-cache button that empties the history as well
clear_cache_click_and_history ==
    /\ cache' = <<>>
    /\ cache_timestamp' = Some(<<>>)
    /\ analysis_history' = <<>>
    /\ last' = [op |-> "clear_cache", content |-> None, position |-> None, api_key |-> None,
                outcome |-> "none", ret |-> NoRet, calls |-> 0, completion |-> "none",
                evicted |-> 0]
    /\ UNCHANGED <<analysis_result, target_position, last_analysis_content,
                   resume_analysis_result, resume_target_position, now>>

\* a clear-cache button that resets cache_timestamp and leaves cache alone
clear_cache_click_timestamps_only ==
    /\ cache_timestamp' = Some(<<>>)
    /\ last' = [op |-> "clear_cache", content |-> None, position |-> None, api_key |-> None,
                outcome |-> "none", ret |-> NoRet, calls |-> 0, completion |-> "none",
                evicted |-> 0]
    /\ UNCHANGED <<cache, analysis_history, analysis_result, target_position,
                   last_analysis_content, resume_analysis_result, resume_target_position,
                   now>>

\* the sidebar's clear-cache button
clear_cache_click ==
    /\ cache' = <<>>
    /\ cache_timestamp' = Some(<<>>)
    /\ last' = Idle("clear_cache")
    /\ UNCHANGED <<analysis_history, analysis_result, target_position, last_analysis_content,
                   resume_analysis_result, resume_target_position, now>>

\* `if st.session_state.analysis_result:` the result panel and its button are shown
ResultShown == analysis_result # None /\ Get(analysis_result) # <<>>

\* the re-analyse button of the result panel
reanalyze_click ==
    /\ ResultShown
    /\ analysis_result' = None
    /\ target_position' = None
    /\ last' = Idle("reanalyze")
    /\ UNCHANGED <<cache, cache_timestamp, analysis_history, last_analysis_content,
                   resume_analysis_result, resume_target_position, now>>

\* the 1-based place in analysis_history of the record the history tab shows
\* at position i (0-based) of reversed(analysis_history)
ShownAt(i) == Len(analysis_history) - i

\* the "view full result" button of the record shown at position i
view_record_click(i) ==
    /\ i \in 0..(Len(analysis_history) - 1)
    /\ analysis_result' = Some(analysis_history[ShownAt(i)].result)
    /\ target_position' = Some(analysis_history[ShownAt(i)].target_position)
    /\ last' = Idle("view")
    /\ UNCHANGED <<cache, cache_timestamp, analysis_history, last_analysis_content,
                   resume_analysis_result, resume_target_position, now>>

\* list.pop(j) for a 0-based j
Pop(s, j) == SubSeq(s, 1, j) \o SubSeq(s, j + 2, Len(s))

\* a delete button that pops at the position shown, not at the stored one
delete_record_click_at_shown_index(i) ==
    /\ i \in 0..(Len(analysis_history) - 1)
    /\ analysis_history' = Pop(analysis_history, i)
    /\ last' = Idle("delete")
    /\ UNCHANGED <<cache, cache_timestamp, analysis_result, target_position,
                   last_analysis_content, resume_analysis_result, resume_target_position,
                   now>>

\* the delete button of the record shown at position i
delete_record_click(i) ==
    /\ i \in 0..(Len(analysis_history) - 1)
    /\ analysis_history' = Pop(analysis_history, Len(analysis_history) - 1 - i)
    /\ last' = Idle("delete")
    /\ UNCHANGED <<cache, cache_timestamp, analysis_result, target_position,
                   last_analysis_content, resume_analysis_result, resume_target_position, now>>

-----------------------------------------------------------------------------
(* resume_analyzer_agent2.py *)

\* "演示模式"
DEMO_MODE == <<"yan", "shi", "mo", "shi">>

resume_extract_file_content(uploaded_file) ==
    IF uploaded_file = None THEN None
    ELSE IF Get(uploaded_file).kind = "txt" THEN Some(Get(uploaded_file).text)
    ELSE Some(DEMO_MODE)

get_resume_content(uploaded_file, resume_test) ==
    IF uploaded_file # None THEN resume_extract_file_content(uploaded_file)
    ELSE IF resume_test # <<>> THEN Some(resume_test)
    ELSE None

\* analyze_resume_with_ai: the string returned, or the exception of the
\* completion call, which nothing in the function catches
analyze_resume_with_ai(resume_text, position, api_key, completion) ==
    IF NoCredential(api_key)
    THEN [ret |-> StrRet(CONFIG_ERROR), calls |-> 0, completion |-> "none"]
    ELSE IF completion.ok
         THEN [ret |-> StrRet(completion.text), calls |-> 1, completion |-> "returned"]
         ELSE [ret |-> NoRet, calls |-> 1, completion |-> "raised"]

resume_handle_analyze_click(uploaded_file, resume_test, position, api_key, completion) ==
    LET content == get_resume_content(uploaded_file, resume_test)
    IN /\ UNCHANGED <<cache, cache_timestamp, analysis_history, analysis_result,
                      target_position, last_analysis_content, now>>
       /\ IF NoContent(content)
          THEN /\ last' = Observe("resume_analyze", content, Some(position), Some(api_key),
                                  "warning_no_content", NoRet, 0, "none", 0)
               /\ UNCHANGED <<resume_analysis_result, resume_target_position>>
          ELSE LET run == analyze_resume_with_ai(Get(content), position, api_key, completion)
               IN IF run.completion = "raised"
                  THEN \* no except clause anywhere: the exception leaves the handler
                       /\ last' = Observe("resume_analyze", content, Some(position),
                                          Some(api_key), "uncaught_exception", run.ret,
                                          run.calls, run.completion, 0)
                       /\ UNCHANGED <<resume_analysis_result, resume_target_position>>
                  ELSE /\ resume_analysis_result' = Some(run.ret.value)
                       /\ resume_target_position' = Some(position)
                       /\ last' = Observe("resume_analyze", content, Some(position),
                                          Some(api_key), "success", run.ret, run.calls,
                                          run.completion, 0)

\* the re-analyse button, shown with a result
resume_reanalyze_click ==
    /\ resume_analysis_result # None /\ Get(resume_analysis_result) # <<>>
    /\ resume_analysis_result' = None
    /\ last' = Idle("resume_reanalyze")
    /\ UNCHANGED <<cache, cache_timestamp, analysis_history, analysis_result,
                   target_position, last_analysis_content, resume_target_position, now>>

-----------------------------------------------------------------------------
(* Bounds of the model, and the inputs drawn from them *)

MaxGrowth == 1  \* analyses are triggered while the history holds at most this many records
MaxSkew == 1    \* clock readings up to this many seconds past the last valid second of an entry
MaxSlack == 2   \* SpecPreview: content lengths this close to PREVIEW_LEN
MaxEntries == 1 \* SpecPreview: analyses are triggered while the cache holds at most this many entries

Position1 == TARGET_POSITIONS[1]
Position3 == TARGET_POSITIONS[3]

ContentA == Rep(MIN_CONTENT_LEN, "a")
\* surrounded by whitespace, MIN_CONTENT_LEN characters once stripped
ContentB == <<" ">> \o Rep(MIN_CONTENT_LEN, "b") \o <<"\n">>
\* at least MIN_CONTENT_LEN characters, fewer once stripped
ContentPadded == <<" ", " ">> \o Rep(MIN_CONTENT_LEN - 1, "c") \o <<"\n">>

Digits == <<"0", "1", "2", "3", "4", "5", "6", "7", "8", "9">>
ContentOfLen(n) == [i \in 1..n |-> Digits[(i % 10) + 1]]

ApiKeySet == <<"s", "k">>
ApiKeys == {<<>>, <<" ", "\t">>, ApiKeySet}

ResultText == <<"s", "c", "o", "r", "e">>
ResultOther == <<"p", "l", "a", "n">>
\* completions that begin with one of the two sentinels
ResultLikeFailure == FAILURE_PREFIX \o <<"?">>
ResultLikeConfig == CONFIG_ERROR \o <<"!">>
Timeout == <<"t", "i", "m", "e", "o", "u", "t">>

Instants == {0} \cup {CACHE_EXPIRY_TIME - 1 + d : d \in 0..MaxSkew}

\* time passes: the clock moves to a later instant
Tick ==
    /\ \E t \in Instants : t > now /\ now' = t
    /\ last' = Idle("tick")
    /\ UNCHANGED <<cache, cache_timestamp, analysis_history, analysis_result, target_position,
                   last_analysis_content, resume_analysis_result, resume_target_position>>

\* the analyse button, with the widgets holding one of the given inputs;
\* an input is the pair of the uploaded file and the text area's text
Typed(text) == <<None, text>>
Uploaded(text) == <<TextFile(text), ContentA>>

Analyze(inputs, positions, keys, completions) ==
    \E w \in inputs, p \in positions, k \in keys, c \in completions :
        handle_analyze_click(w[1], w[2], p, k, c)

ViewRecordClick == \E i \in 0..(MAX_HISTORY_RECORDS - 1) : view_record_click(i)

DeleteRecordClick == \E i \in 0..(MAX_HISTORY_RECORDS - 1) : delete_record_click(i)

Init ==
    /\ cache = <<>>
    /\ cache_timestamp = None
    /\ analysis_history = <<>>
    /\ analysis_result = None
    /\ target_position = None
    /\ last_analysis_content = None
    /\ resume_analysis_result = None
    /\ resume_target_position = None
    /\ now = 0
    /\ last = Idle("init")

-----------------------------------------------------------------------------
(* Spec: one session of zcyq.py within one second of the clock: every input  *)
(* class of the handler, every kind of completion.                          *)

AnalyzeClick ==
    /\ Len(analysis_history) <= MaxGrowth
    /\ Analyze({Typed(<<>>), Typed(ContentPadded), Typed(ContentA), Uploaded(ContentB)},
               {Position1},
               ApiKeys,
               {Returns(ResultText), Returns(<<>>), Returns(ResultLikeFailure),
                Returns(ResultLikeConfig), Raises(Timeout)})

Next ==
    \/ AnalyzeClick
    \/ clear_cache_click
    \/ reanalyze_click
    \/ ViewRecordClick
    \/ DeleteRecordClick

Spec == Init /\ [][Next]_vars

-----------------------------------------------------------------------------
(* SpecExpiry: one content under two categories while the clock passes the  *)
(* expiry time of the cache entries.                                        *)

ExpiryAnalyzeClick ==
    /\ Len(analysis_history) <= MaxGrowth
    /\ Analyze({Typed(ContentA)}, {Position1, Position3}, {ApiKeySet},
               {Returns(ResultText), Returns(ResultOther), Returns(<<>>)})

NextExpiry ==
    \/ ExpiryAnalyzeClick
    \/ Tick
    \/ clear_cache_click
    \/ DeleteRecordClick

SpecExpiry == Init /\ [][NextExpiry]_vars

-----------------------------------------------------------------------------
(* SpecHistory: the history filled up to and beyond MAX_HISTORY_RECORDS.    *)

HistoryAnalyzeClick ==
    Analyze({Typed(ContentA)}, {Position1}, {ApiKeySet}, {Returns(ResultText)})

NextHistory ==
    \/ HistoryAnalyzeClick
    \/ Tick
    \/ clear_cache_click
    \/ DeleteRecordClick

SpecHistory == Init /\ [][NextHistory]_vars

-----------------------------------------------------------------------------
(* SpecActions: every widget of main() at work on a history that fills up   *)
(* to and beyond MAX_HISTORY_RECORDS, with analyses that succeed, fail and   *)
(* are refused.                                                              *)

ActionsAnalyzeClick ==
    Analyze({Typed(ContentA), Typed(<<>>)}, {Position1}, ApiKeys,
            {Returns(ResultText), Raises(Timeout)})

NextActions ==
    \/ ActionsAnalyzeClick
    \/ Tick
    \/ clear_cache_click
    \/ reanalyze_click
    \/ ViewRecordClick
    \/ DeleteRecordClick

SpecActions == Init /\ [][NextActions]_vars

-----------------------------------------------------------------------------
(* SpecPreview: contents of the lengths around PREVIEW_LEN.                 *)

PreviewLengths ==
    {MIN_CONTENT_LEN} \cup ((PREVIEW_LEN - MaxSlack)..(PREVIEW_LEN + MaxSlack))

PreviewAnalyzeClick ==
    /\ Len(analysis_history) <= MaxGrowth
    /\ Cardinality(DOMAIN cache) <= MaxEntries
    /\ Analyze({Typed(ContentOfLen(n)) : n \in PreviewLengths}, {Position1}, {ApiKeySet},
               {Returns(ResultText)})

NextPreview ==
    \/ PreviewAnalyzeClick
    \/ clear_cache_click
    \/ DeleteRecordClick

SpecPreview == Init /\ [][NextPreview]_vars

-----------------------------------------------------------------------------
(* SpecResume: one session of resume_analyzer_agent2.py.                    *)

ResumeAnalyzeClick ==
    \E f \in {None, TextFile(ContentB)}, t \in {<<>>, ContentA},
       p \in {RESUME_TARGET_POSITIONS[i] : i \in 1..Len(RESUME_TARGET_POSITIONS)},
       k \in ApiKeys, c \in {Returns(ResultText), Returns(<<>>), Raises(Timeout)} :
        resume_handle_analyze_click(f, t, p, k, c)

NextResume ==
    \/ ResumeAnalyzeClick
    \/ resume_reanalyze_click

SpecResume == Init /\ [][NextResume]_vars

-----------------------------------------------------------------------------
(* SpecKey: contents longer than KEY_PREFIX_LEN, two of which differ only   *)
(* after the prefix the key is made of, while cache entries age.            *)

LongX == ContentOfLen(KEY_PREFIX_LEN) \o <<"x">>
LongY == ContentOfLen(KEY_PREFIX_LEN) \o <<"y", "y">>
\* differs from LongX and LongY in the last character of the prefix
LongZ == ContentOfLen(KEY_PREFIX_LEN - 1) \o <<"z", "x">>

KeyAnalyzeClick ==
    /\ Len(analysis_history) <= MaxGrowth
    /\ Analyze({Typed(LongX), Typed(LongY), Typed(LongZ)}, {Position1}, {ApiKeySet},
               {Returns(ResultText), Returns(<<>>)})

NextKey ==
    \/ KeyAnalyzeClick
    \/ Tick
    \/ clear_cache_click
    \/ DeleteRecordClick

SpecKey == Init /\ [][NextKey]_vars

-----------------------------------------------------------------------------
(* Vocabulary of the properties, stated apart from the definitions above *)

\* a credential that is missing or holds nothing but whitespace
BlankCredential(k) == \A i \in 1..Len(k) : k[i] \in {" ", "\t", "\n", "\r"}

\* the length of a text without its leading and trailing whitespace
TrimmedLen(text) ==
    LET inked == {i \in 1..Len(text) : text[i] \notin {" ", "\t", "\n", "\r"}}
    IN IF inked = {} THEN 0
       ELSE (CHOOSE i \in inked : \A j \in inked : j <= i)
            - (CHOOSE i \in inked : \A j \in inked : i <= j) + 1

\* text s begins with text p
Begins(s, p) == Len(s) >= Len(p) /\ \A i \in 1..Len(p) : s[i] = p[i]

\* content that passes the handler's validation
ValidContent(content) == content # None /\ TrimmedLen(Get(content)) >= 10

\* the observation l is of an analysis click that reached the orchestrator
Orchestrated(l) == l.op = "analyze" /\ ValidContent(l.content)

\* the cache key of the request observed in l
RequestKey(l) == get_cache_key(Get(l.content), Get(l.position))

\* store c holds, at time t, an entry for key k younger than 3600 seconds
Fresh(c, t, k) == k \in DOMAIN c /\ t - c[k].timestamp < 3600

-----------------------------------------------------------------------------
(* C1 *)

\* C1: whenever an analysis with a credential finds an entry for its
\* (content, category) in the cache, it returns the stored result unchanged with
\* from_cache = TRUE and no completion request while the entry is younger than
\* 3600 seconds, whatever string the completion stored; once the entry is 3600
\* seconds old or older it issues a fresh completion request.
C1_StoredResultServedWithinTTL ==
    [][(/\ Orchestrated(last')
        /\ ~BlankCredential(Get(last'.api_key))
        /\ RequestKey(last') \in DOMAIN cache)
       => IF Fresh(cache, now, RequestKey(last'))
          THEN /\ last'.ret = TupleRet(cache[RequestKey(last')].result, TRUE)
               /\ last'.calls = 0
          ELSE /\ last'.calls = 1
               /\ ~last'.ret.from_cache]_vars

-----------------------------------------------------------------------------
(* C2 *)

\* the request observed in l met, in store c at time t, a young entry with a
\* result to show
ValidHit(c, t, l) == Fresh(c, t, RequestKey(l)) /\ c[RequestKey(l)].result # <<>>

-----------------------------------------------------------------------------
(* C3 *)

\* C3: a validated analysis with a missing or blank credential returns the
\* configuration-error sentinel, issues no completion request and leaves the
\* cache and the history as they were.
C3_NoCredentialLeavesStateAlone ==
    [][(Orchestrated(last') /\ BlankCredential(Get(last'.api_key)))
       => /\ last'.ret = StrRet(CONFIG_ERROR)
          /\ last'.calls = 0
          /\ last'.completion = "none"
          /\ cache' = cache
          /\ analysis_history' = analysis_history]_vars

\* a whitespace-only credential was rejected in a session that has a cache
\* entry and a history record
C3_BlankCredentialRejected ==
    /\ Orchestrated(last)
    /\ Get(last.api_key) # <<>>
    /\ BlankCredential(Get(last.api_key))
    /\ last.ret = StrRet(CONFIG_ERROR)
    /\ cache # <<>>
    /\ analysis_history # <<>>

-----------------------------------------------------------------------------
(* C4 *)

\* C4: when the orchestrator returns the configuration error, the handler ends
\* without an exception and the message is the displayed analysis result.
C4_ConfigErrorDisplayed ==
    (last.op = "analyze" /\ last.ret = StrRet(CONFIG_ERROR))
        => (last.outcome = "success" /\ analysis_result = Some(CONFIG_ERROR))

-----------------------------------------------------------------------------
(* C5 *)

\* the clock reading a history timestamp was formatted from
Seconds(ts) == ts.day * 86400 + ts.H * 3600 + ts.M * 60 + ts.S

\* the observation l is of an analysis that put a record into the history
Recorded(l) ==
    /\ l.op = "analyze"
    /\ l.completion = "returned"
    /\ ~Begins(l.ret.value, CONFIG_ERROR)
    /\ ~Begins(l.ret.value, FAILURE_PREFIX)

\* C5: the history never holds more than 10 records and is ordered newest
\* first; an insertion puts the new record in front, and when the history
\* already held 10 records it drops exactly the last one, the others following
\* the new record in their previous order.
C5_HistoryCappedNewestFirst ==
    /\ [](/\ Len(analysis_history) <= 10
          /\ \A i \in 1..(Len(analysis_history) - 1) :
                Seconds(analysis_history[i].timestamp)
                    >= Seconds(analysis_history[i + 1].timestamp))
    /\ [][Recorded(last')
          => /\ analysis_history'[1].result = last'.ret.value
             /\ Seconds(analysis_history'[1].timestamp) = now
             /\ Tail(analysis_history') =
                    IF Len(analysis_history) = 10
                    THEN SubSeq(analysis_history, 1, 9)
                    ELSE analysis_history]_vars

\* an insertion into a full history dropped a record, and the records left
\* are of different ages
C5_EleventhRecordInserted ==
    /\ Recorded(last)
    /\ last.evicted = 1
    /\ Len(analysis_history) = 10
    /\ analysis_history[1].timestamp # analysis_history[2].timestamp
    /\ analysis_history[9].timestamp # analysis_history[10].timestamp

-----------------------------------------------------------------------------
(* C6 *)

\* C6: a completion call that raises never leaves the click handler as an
\* uncaught exception.
C6_NoExceptionLeavesHandler ==
    last.completion = "raised" => last.outcome # "uncaught_exception"

-----------------------------------------------------------------------------
(* C7 *)

\* C7: when the completion call raises, the orchestrator returns a text that
\* begins with the failure sentinel together with from_cache = FALSE, nothing
\* is raised, and the cache and the history stay as they were.
C7_FailureNeitherCachedNorRecorded ==
    [][(last'.op = "analyze" /\ last'.completion = "raised")
       => /\ last'.ret.tag = "tuple"
          /\ Begins(last'.ret.value, FAILURE_PREFIX)
          /\ ~last'.ret.from_cache
          /\ last'.outcome = "success"
          /\ cache' = cache
          /\ analysis_history' = analysis_history]_vars

\* a completion call raised in a session that has a cache entry and a history record
C7_CompletionRaised ==
    /\ last.op = "analyze"
    /\ last.completion = "raised"
    /\ cache # <<>>
    /\ analysis_history # <<>>

-----------------------------------------------------------------------------
(* C8 *)

\* C8: an analysis with a credential that immediately repeats the (content,
\* category) of an analysis whose completion succeeded returns the identical
\* result with from_cache = TRUE, issues no completion request and adds no
\* history record.
C8_ImmediateRepeatServedFromCache ==
    [][(/\ Orchestrated(last)
        /\ last.completion = "returned"
        /\ Orchestrated(last')
        /\ last'.content = last.content
        /\ last'.position = last.position
        /\ ~BlankCredential(Get(last'.api_key)))
       => /\ last'.ret = TupleRet(last.ret.value, TRUE)
          /\ last'.calls = 0
          /\ analysis_history' = analysis_history]_vars

-----------------------------------------------------------------------------
(* C9 *)

\* C9: with no content, or content shorter than 10 characters once stripped,
\* the handler stops with a warning: the orchestrator is not invoked, no
\* completion request is issued, and the cache, the history and the displayed
\* analysis result stay as they were.
C9_InvalidContentStopsHandler ==
    [][(last'.op = "analyze" /\ ~ValidContent(last'.content))
       => /\ last'.outcome \in {"warning_no_content", "warning_too_short"}
          /\ last'.ret = NoRet
          /\ last'.calls = 0
          /\ cache' = cache
          /\ analysis_history' = analysis_history
          /\ analysis_result' = analysis_result]_vars

\* content of 10 characters or more, too short once stripped, was refused in a
\* session that shows a result and has a cache entry and a history record
C9_PaddedContentRefused ==
    /\ last.op = "analyze"
    /\ last.outcome = "warning_too_short"
    /\ Len(Get(last.content)) >= 10
    /\ analysis_result # None
    /\ cache # <<>>
    /\ analysis_history # <<>>

-----------------------------------------------------------------------------
(* C10 *)

\* C10: the content_preview of a new history record is the first 50 characters
\* of the content followed by "..." when the content is longer than 50
\* characters, and the content itself otherwise.
C10_PreviewOfContent ==
    [][Recorded(last')
       => LET content == Get(last'.content)
          IN analysis_history'[1].content_preview =
                IF Len(content) > 50
                THEN [i \in 1..53 |-> IF i <= 50 THEN content[i] ELSE "."]
                ELSE content]_vars

\* a record was made of a content of 51 characters
C10_LongContentRecorded ==
    /\ Recorded(last)
    /\ Len(Get(last.content)) = 51
    /\ Len(analysis_history[1].content_preview) = 53

-----------------------------------------------------------------------------
(* C11 *)

\* texts a and b have the same first 1000 characters
SamePrefix(a, b) ==
    \A i \in 1..1000 :
        /\ (i <= Len(a)) <=> (i <= Len(b))
        /\ (i <= Len(a)) => a[i] = b[i]

\* C11: a request with a credential whose content agrees, on its first 1000
\* characters, with a content whose entry for the same category is younger
\* than 3600 seconds is answered with that entry's result, from_cache = TRUE
\* and no completion request, also when the two contents differ after
\* character 1000.
C11_SamePrefixSameEntry ==
    [][(Orchestrated(last') /\ ~BlankCredential(Get(last'.api_key)))
       => \A first \in {LongX, LongY, LongZ} :
            (/\ SamePrefix(first, Get(last'.content))
             /\ Fresh(cache, now, get_cache_key(first, Get(last'.position))))
            => /\ last'.ret =
                    TupleRet(cache[get_cache_key(first, Get(last'.position))].result, TRUE)
               /\ last'.calls = 0]_vars

-----------------------------------------------------------------------------
(* C12 *)

\* sequence s with its j-th element (1-based) taken out
Without(s, j) == [k \in 1..(Len(s) - 1) |-> IF k < j THEN s[k] ELSE s[k + 1]]

\* C12: whatever the user does (analyse, clear the cache, delete a record,
\* re-analyse, view a record), the history changes only in two ways: a
\* successful, non-cached, non-error analysis puts one record in front of it
\* (the last record dropping out when it already held 10), or a delete click
\* takes one record out; every other step leaves the history as it was.
C12_HistoryChangesOnlyByRecordOrDelete ==
    [][/\ analysis_history' # analysis_history
          => \/ /\ Recorded(last')
                /\ ~last'.ret.from_cache
                /\ Len(analysis_history') = Min(Len(analysis_history) + 1, 10)
                /\ Tail(analysis_history') =
                       [k \in 1..(Len(analysis_history') - 1) |-> analysis_history[k]]
             \/ /\ last'.op = "delete"
                /\ \E j \in 1..Len(analysis_history) :
                       analysis_history' = Without(analysis_history, j)
       /\ last'.op \in {"clear_cache", "reanalyze", "view", "tick"}
          => analysis_history' = analysis_history
       /\ (last'.op = "analyze" /\ ~Recorded(last'))
          => analysis_history' = analysis_history]_vars

\* a recorded analysis pushed the oldest of 10 records of different ages out
C12_RecordGainedAtTheCap ==
    /\ last.op = "analyze"
    /\ last.completion = "returned"
    /\ last.evicted = 1
    /\ Len(analysis_history) = 10
    /\ analysis_history[1].timestamp # analysis_history[10].timestamp

-----------------------------------------------------------------------------
(* C13 *)

\* the history tab's listing: the stored records in reverse order
Listing(h) == [k \in 1..Len(h) |-> h[Len(h) + 1 - k]]

\* C13: a click on the delete button of the record listed at position i
\* (0-based) of the history tab takes exactly that record out of the listing:
\* the records before and after it keep their order, the history is one
\* record shorter, and the cache is as it was.
C13_DeleteRemovesTheListedRecord ==
    [][\A i \in 0..9 :
         delete_record_click(i)
         => /\ Listing(analysis_history') = Without(Listing(analysis_history), i + 1)
            /\ Len(analysis_history') = Len(analysis_history) - 1
            /\ cache' = cache
            /\ cache_timestamp' = cache_timestamp]_vars

\* a record was deleted from among records of different ages, the cache
\* holding an entry
C13_RecordDeleted ==
    /\ last.op = "delete"
    /\ Len(analysis_history) >= 2
    /\ analysis_history[1].timestamp # analysis_history[Len(analysis_history)].timestamp
    /\ DOMAIN cache # {}

-----------------------------------------------------------------------------
(* C14 *)

\* C14: a click on the clear-cache button leaves the cache without any entry
\* and the history and the displayed result (with its category) as they were;
\* the analysis that follows it, of valid content with a credential, finds no
\* entry whatever its content and category: it issues one completion request
\* and its result is not marked as cached.
C14_ClearCacheEmptiesTheCacheOnly ==
    /\ [][last'.op = "clear_cache"
          => /\ DOMAIN cache' = {}
             /\ analysis_history' = analysis_history
             /\ analysis_result' = analysis_result
             /\ target_position' = target_position]_vars
    /\ [][(/\ last.op = "clear_cache"
           /\ Orchestrated(last')
           /\ ~BlankCredential(Get(last'.api_key)))
          => /\ last'.calls = 1
             /\ ~last'.ret.from_cache]_vars

\* the same content and category were analysed twice with a completion
\* request, at the same instant and with a non-empty first result: the cache
\* was cleared in between
C14_CachedPairAnalysedAfresh ==
    /\ last.op = "analyze"
    /\ last.calls = 1
    /\ last.completion = "returned"
    /\ Len(analysis_history) = 2
    /\ analysis_history[1].content_preview = analysis_history[2].content_preview
    /\ analysis_history[1].target_position = analysis_history[2].target_position
    /\ analysis_history[1].timestamp = analysis_history[2].timestamp
    /\ analysis_history[2].result # <<>>

-----------------------------------------------------------------------------
(* C15 *)

\* the history h keeps a record of an analysis of content (of 50 characters
\* or fewer) for category made 3600 seconds or more before the instant t
AnalysedLongBefore(h, content, category, t) ==
    \E j \in 1..Len(h) :
        /\ h[j].target_position = category
        /\ h[j].content_preview = content
        /\ Seconds(h[j].timestamp) + 3600 <= t

\* C15: a successful analysis of a (content, category) whose entry is 3600
\* seconds old or older puts the new result and the current time in the place
\* of that entry, the other entries staying as they were; and an entry stored
\* for a pair that had been analysed 3600 seconds or more before is served, as
\* long as it is younger than 3600 seconds, with its own (the new) result,
\* from_cache = TRUE and no completion request.
C15_ExpiredEntryReplacedAndServed ==
    /\ [][(/\ Orchestrated(last')
           /\ ~BlankCredential(Get(last'.api_key))
           /\ RequestKey(last') \in DOMAIN cache
           /\ ~Fresh(cache, now, RequestKey(last'))
           /\ last'.completion = "returned")
          => cache' = [cache EXCEPT ![RequestKey(last')] =
                           [result |-> last'.ret.value, timestamp |-> now']]]_vars
    /\ [][(/\ Orchestrated(last')
           /\ ~BlankCredential(Get(last'.api_key))
           /\ Fresh(cache, now, RequestKey(last'))
           /\ AnalysedLongBefore(analysis_history, Get(last'.content), Get(last'.position),
                                 cache[RequestKey(last')].timestamp))
          => /\ last'.ret = TupleRet(cache[RequestKey(last')].result, TRUE)
             /\ last'.calls = 0]_vars

-----------------------------------------------------------------------------
(* C16 *)

\* the observation l is of a click on an analyse button of either variant
Invocation(l) == l.op \in {"analyze", "resume_analyze"}

\* the invocation observed in l was refused at validation, before any request
RejectedAtValidation(l) ==
    /\ l.outcome \in {"warning_no_content", "warning_too_short"}
    /\ l.calls = 0

\* the invocation observed in l was refused for its missing credential
RejectedForCredential(l) ==
    /\ BlankCredential(Get(l.api_key))
    /\ l.ret.value = CONFIG_ERROR
    /\ l.calls = 0

\* the invocation observed in l ended with a result, fetched or cached
Done(l) ==
    /\ l.outcome = "success"
    /\ \/ l.calls = 1 /\ l.completion = "returned"
       \/ l.calls = 0 /\ l.ret.from_cache

\* the invocation observed in l ended with the diagnostic of its failed request
Failed(l) ==
    /\ l.calls = 1
    /\ l.completion = "raised"
    /\ Begins(l.ret.value, FAILURE_PREFIX)

\* C16: an invocation of the analysis, in either variant, issues at most one
\* completion request and ends refused at validation, refused for the missing
\* credential, Done or Failed; nothing but a click on an analyse button issues
\* a request, so a failed or refused invocation is not tried again by itself.
C16_OneRequestAndTerminalOutcome ==
    /\ last.calls <= 1
    /\ Invocation(last)
       => \/ RejectedAtValidation(last)
          \/ RejectedForCredential(last)
          \/ Done(last)
          \/ Failed(last)
    /\ ~Invocation(last) => last.calls = 0

====
